---------------------------- MODULE Spec2Model ----------------------------
(***************************************************************************)
(* Model of the lending-registry chat bot: src/src/bot.py (the             *)
(* ConversationHandler and its handlers) over src/src/database.py (the     *)
(* MongoDBHandler repository).                                              *)
(*                                                                         *)
(* Texts are sequences of one-character strings.  A menu caption (the      *)
(* ACTION_... and ..._BTN constants of bot.py) is a one-element sequence    *)
(* holding a token for the whole caption: no caption contains ": ", none   *)
(* starts with "/", none parses as an integer, and the handlers only ever  *)
(* compare a caption for equality.                                         *)
(***************************************************************************)
EXTENDS Integers, Sequences, FiniteSets, TLC

VARIABLES
    readers,      \* db.readers: the readers collection, in insertion order
    loans,        \* db.loans: the loans collection, in insertion order
    state,        \* ConversationHandler: conversation state of each user
    user_data,    \* context.user_data of each user (a dict: key -> value)
    replies,      \* what the last handled update of each user sent back
    typed,        \* history: the raw texts each user entered in the flow it is
                  \* in, and what another user returned meanwhile; emptied
                  \* when the flow ends
    waived        \* history: the readers whose deposit-taking checkout was
                  \* confirmed with an amount of zero or less and who have
                  \* not returned their last book since

vars == <<readers, loans, state, user_data, replies, typed, waived>>

----------------------------------------------------------------------------
(* Bounds of the model *)

MaxReaders == 2
MaxLoans == 2

(* the chat users whose conversations the model follows *)
Users == {1, 2}

----------------------------------------------------------------------------
(* bot.py:71-74 conversation states; IDLE is "no conversation yet": the      *)
(* ConversationHandler holds no state for the user and only its entry point *)
(* (/start) is handled.                                                     *)

IDLE == "IDLE"
MAIN_MENU == "MAIN_MENU"
READER_NAME == "READER_NAME"
READER_CONTACT == "READER_CONTACT"
CONFIRM_READER == "CONFIRM_READER"
PROCESS_BOOK == "PROCESS_BOOK"
CHOOSE_READER == "CHOOSE_READER"
CONFIRM_BOOK == "CONFIRM_BOOK"
RETURN_BOOK == "RETURN_BOOK"
SELECT_READER_FOR_BOOKS == "SELECT_READER_FOR_BOOKS"
DEPOSIT_AMOUNT == "DEPOSIT_AMOUNT"

(* bot.py:145-154 captions *)
ACTION_ADD_READER == <<"[ADD_READER]">>
ACTION_GET_LOANS == <<"[GET_LOANS]">>
ACTION_CHECK_OUT_BOOK == <<"[CHECK_OUT_BOOK]">>
ACTION_RETURN_BOOK == <<"[RETURN_BOOK]">>
ACTION_ALL_READERS == <<"[ALL_READERS]">>
ACTION_SELECT_READER_FOR_BOOKS == <<"[SELECT_READER_FOR_BOOKS]">>
ACTION_BACK == <<"[BACK]">>
YES_BTN == <<"[YES]">>
NO_BTN == <<"[NO]">>

(* bot.py:121-135: the emoji one of which reader_name appends to a name.   *)
(* Two of the list stand for all of it: what matters is whether two        *)
(* registrations drew the same one.                                        *)
animal_emojis == {"dog", "cat"}

----------------------------------------------------------------------------
(* Python string operations used by the handlers *)

Whitespace == {" "}

RECURSIVE lstrip(_)
lstrip(s) ==
    IF s # <<>> /\ Head(s) \in Whitespace THEN lstrip(Tail(s)) ELSE s

RECURSIVE rstrip(_)
rstrip(s) ==
    IF s # <<>> /\ s[Len(s)] \in Whitespace
    THEN rstrip(SubSeq(s, 1, Len(s) - 1))
    ELSE s

(* str.strip() *)
strip(s) == rstrip(lstrip(s))

(* str.find(sep, i - 1) + 1: the first position >= i where sep occurs, or 0 *)
RECURSIVE find(_, _, _)
find(s, sep, i) ==
    IF i + Len(sep) - 1 > Len(s) THEN 0
    ELSE IF SubSeq(s, i, i + Len(sep) - 1) = sep THEN i
    ELSE find(s, sep, i + 1)

(* str.split(sep): the parts between the non-overlapping occurrences of sep, *)
(* scanned left to right                                                     *)
RECURSIVE split(_, _)
split(s, sep) ==
    LET i == find(s, sep, 1)
    IN  IF i = 0 THEN <<s>>
        ELSE <<SubSeq(s, 1, i - 1)>> \o split(SubSeq(s, i + Len(sep), Len(s)), sep)

DigitChars == <<"0", "1", "2", "3", "4", "5", "6", "7", "8", "9">>
IsDigit(c) == \E i \in 1..Len(DigitChars) : DigitChars[i] = c
DigitVal(c) == (CHOOSE i \in 1..Len(DigitChars) : DigitChars[i] = c) - 1

RECURSIVE DigitsVal(_)
DigitsVal(s) ==
    IF s = <<>> THEN 0
    ELSE 10 * DigitsVal(SubSeq(s, 1, Len(s) - 1)) + DigitVal(s[Len(s)])

(* int(choice): surrounding whitespace, an optional sign, decimal digits.   *)
IntBody(s) ==
    LET t == strip(s)
    IN  IF t # <<>> /\ Head(t) \in {"+", "-"} THEN Tail(t) ELSE t

(* FALSE is the ValueError of int() *)
int_ok(s) ==
    LET b == IntBody(s)
    IN  b # <<>> /\ \A i \in 1..Len(b) : IsDigit(b[i])

int(s) ==
    LET t == strip(s)
    IN  IF Head(t) = "-" THEN 0 - DigitsVal(IntBody(s)) ELSE DigitsVal(IntBody(s))

(* filters.COMMAND: a message that starts with a bot command *)
IsCommand(t) == t # <<>> /\ Head(t) = "/"

----------------------------------------------------------------------------
(* database.py: the repository, as functions of the collections *)

(* a faulty add_reader, against which C1 is tried: the contact field is     *)
(* filled from the name                                                     *)
add_reader_mixed(rs, reader_data) ==
    Append(rs, [id |-> Len(rs) + 1,
                name |-> reader_data.name,
                contact |-> reader_data.name,
                deposit_amount |-> reader_data.deposit_amount])

(* insert_one of reader_data; the _id MongoDB assigns is the position *)
add_reader(rs, reader_data) ==
    Append(rs, [id |-> Len(rs) + 1,
                name |-> reader_data.name,
                contact |-> reader_data.contact,
                deposit_amount |-> reader_data.deposit_amount])

get_all_readers(rs) == rs

NoReader == [id |-> 0, name |-> <<>>, contact |-> <<>>, deposit_amount |-> 0]

(* find_one({"_id": reader_id}): NoReader stands for None *)
get_reader_by_id(rs, reader_id) ==
    IF reader_id \in 1..Len(rs) THEN rs[reader_id] ELSE NoReader

(* a faulty get_reader_by_name, against which C6 is tried: with no match    *)
(* it gives the first reader of the collection instead of None              *)
get_reader_by_name_first(rs, name) ==
    LET hits == {i \in 1..Len(rs) : rs[i].name = name}
    IN  IF rs = <<>> THEN NoReader
        ELSE IF hits = {} THEN rs[1]
        ELSE rs[CHOOSE i \in hits : \A j \in hits : i <= j]

(* find_one({"name": name}): the first reader with that name, or None *)
get_reader_by_name(rs, name) ==
    LET hits == {i \in 1..Len(rs) : rs[i].name = name}
    IN  IF hits = {} THEN NoReader
        ELSE rs[CHOOSE i \in hits : \A j \in hits : i <= j]

(* a faulty update_reader_deposit, against which C2 is tried: the filter    *)
(* matches no document, so nothing is written                               *)
update_reader_deposit_unmatched(rs, reader_id, deposit_amount) == rs

(* update_one({"_id": reader_id}, {"$set": {"deposit_amount": ...}}) *)
update_reader_deposit(rs, reader_id, deposit_amount) ==
    [i \in 1..Len(rs) |->
        IF rs[i].id = reader_id
        THEN [rs[i] EXCEPT !.deposit_amount = deposit_amount]
        ELSE rs[i]]

(* insert_one of loan_data.  A loan is inserted without a return_date; in   *)
(* place of the date the model keeps how many times one has been written,  *)
(* 0 for a loan that has none.                                             *)
add_loan(ls, loan_data) ==
    Append(ls, [reader_id |-> loan_data.reader_id,
                book_title |-> loan_data.book_title,
                is_active |-> loan_data.is_active,
                return_date |-> 0])

(* positions of the loans a filter selects, in insertion order; hit[i] says *)
(* whether the filter selects loan i                                        *)
RECURSIVE Positions(_, _)
Positions(hit, i) ==
    IF i > Len(hit) THEN <<>>
    ELSE (IF hit[i] THEN <<i>> ELSE <<>>) \o Positions(hit, i + 1)

ActivePositions(ls) ==
    Positions([i \in 1..Len(ls) |-> ls[i].is_active], 1)

ReaderActivePositions(ls, reader_id) ==
    Positions([i \in 1..Len(ls) |->
                  ls[i].reader_id = reader_id /\ ls[i].is_active], 1)

MatchingPositions(ls, reader_id, book_title) ==
    Positions([i \in 1..Len(ls) |->
                  /\ ls[i].reader_id = reader_id
                  /\ ls[i].book_title = book_title
                  /\ ls[i].is_active], 1)

(* find({"is_active": True}) *)
get_active_loans(ls) ==
    LET p == ActivePositions(ls) IN [k \in 1..Len(p) |-> ls[p[k]]]

(* a faulty get_reader_active_loans, against which C3 is tried: the filter  *)
(* matches no document                                                      *)
get_reader_active_loans_none(ls, reader_id) == <<>>

(* a faulty get_reader_active_loans, against which C4 is tried: the filter  *)
(* leaves out is_active                                                     *)
get_reader_active_loans_all(ls, reader_id) ==
    LET p == Positions([i \in 1..Len(ls) |-> ls[i].reader_id = reader_id], 1)
    IN  [k \in 1..Len(p) |-> ls[p[k]]]

(* find({"reader_id": reader_id, "is_active": True}) *)
get_reader_active_loans(ls, reader_id) ==
    LET p == ReaderActivePositions(ls, reader_id) IN [k \in 1..Len(p) |-> ls[p[k]]]

(* a faulty return_book, against which C5 is tried: update_many with a      *)
(* filter that leaves out book_title closes every active loan of the reader *)
db_return_book_many(ls, reader_id, book_title) ==
    [i \in 1..Len(ls) |->
        IF ls[i].reader_id = reader_id /\ ls[i].is_active
        THEN [ls[i] EXCEPT !.is_active = FALSE, !.return_date = @ + 1]
        ELSE ls[i]]

(* a faulty return_book, against which C18 is tried: update_many closes     *)
(* every loan the filter matches                                            *)
db_return_book_every(ls, reader_id, book_title) ==
    [i \in 1..Len(ls) |->
        IF ls[i].reader_id = reader_id /\ ls[i].book_title = book_title
                                       /\ ls[i].is_active
        THEN [ls[i] EXCEPT !.is_active = FALSE, !.return_date = @ + 1]
        ELSE ls[i]]

(* a faulty return_book, against which C19 is tried: the filter leaves out  *)
(* is_active, so a loan already returned may be matched and written again   *)
db_return_book_again(ls, reader_id, book_title) ==
    LET p == Positions([i \in 1..Len(ls) |->
                           /\ ls[i].reader_id = reader_id
                           /\ ls[i].book_title = book_title], 1)
    IN  IF p = <<>> THEN ls
        ELSE [ls EXCEPT ![p[1]] = [@ EXCEPT !.is_active = FALSE,
                                            !.return_date = @ + 1]]

(* return_book: update_one closes the first loan the filter matches and    *)
(* writes its return_date.                                                 *)
db_return_book(ls, reader_id, book_title) ==
    LET p == MatchingPositions(ls, reader_id, book_title)
    IN  IF p = <<>> THEN ls
        ELSE [ls EXCEPT ![p[1]] = [@ EXCEPT !.is_active = FALSE,
                                            !.return_date = @ + 1]]

(* a faulty result of return_book, against which C9 is tried: the test     *)
(* modified_count > 1 never holds for update_one                           *)
db_return_book_result_never(ls, reader_id, book_title) == FALSE

(* a faulty result of return_book, against which C14 is tried: the test    *)
(* modified_count >= 0 always holds                                        *)
db_return_book_result_always(ls, reader_id, book_title) == TRUE

(* return_book's result: modified_count > 0 *)
db_return_book_result(ls, reader_id, book_title) ==
    MatchingPositions(ls, reader_id, book_title) # <<>>

----------------------------------------------------------------------------
(* context.user_data: a dict; a key is absent until a handler sets it *)

Has(d, k) == k \in DOMAIN d

Put(d, k, v) == [x \in (DOMAIN d) \cup {k} |-> IF x = k THEN v ELSE d[x]]

(* what one update sends back: the messages, the reply keyboard of the     *)
(* last one, and the amount a message names (0 when it names none)         *)
Reply(msgs, keyboard, amount) ==
    [msgs |-> msgs, keyboard |-> keyboard, amount |-> amount]

NoReply == Reply(<<>>, <<>>, 0)

(* bot.py:159-163 *)
MainKeyboard ==
    <<ACTION_ADD_READER, ACTION_ALL_READERS, ACTION_CHECK_OUT_BOOK,
      ACTION_RETURN_BOOK, ACTION_GET_LOANS, ACTION_SELECT_READER_FOR_BOOKS>>

YesNoKeyboard == <<YES_BTN, NO_BTN>>

(* the keyboard of reader names main_menu renders, bot.py:188-189, 242-243 *)
ReaderKeyboard(rs) == [i \in 1..Len(rs) |-> rs[i].name] \o <<ACTION_BACK>>

(* f"{reader['name']}: {loan['book_title']}", bot.py:206 *)
LoanLabel(rs, loan) ==
    get_reader_by_id(rs, loan.reader_id).name \o <<":", " ">> \o loan.book_title

(* the keyboard of loan labels main_menu renders, bot.py:203-207 *)
LoanKeyboard(rs, ls) ==
    LET a == get_active_loans(ls)
    IN  [k \in 1..Len(a) |-> LoanLabel(rs, a[k])] \o <<ACTION_BACK>>

(* name, contact, reader, title, amount: the texts entered in the states    *)
(* READER_NAME, READER_CONTACT, CHOOSE_READER, PROCESS_BOOK, DEPOSIT_AMOUNT;*)
(* prior: the number of active loans the chosen reader had when the title   *)
(* was entered; last: the text of the last update when it was answered in   *)
(* a choosing state without leaving that state; rival: the label by which   *)
(* another user last closed a loan while this user sat in RETURN_BOOK, and  *)
(* rivalReset: whether that return reset the deposit; failed: the text of   *)
(* the update during which a repository call raised in CONFIRM_BOOK or      *)
(* RETURN_BOOK, with the number of loans on file and of active loans the    *)
(* text stood for before that update                                        *)
NoFailed == [text |-> <<>>, loans |-> 0, matching |-> 0]

NoTyped == [name |-> <<>>, contact |-> <<>>, reader |-> <<>>, title |-> <<>>,
            amount |-> <<>>, prior |-> 0, last |-> <<>>,
            rival |-> <<>>, rivalReset |-> FALSE, failed |-> NoFailed]

Init ==
    /\ readers = <<>>
    /\ loans = <<>>
    /\ state = [u \in Users |-> IDLE]
    /\ user_data = [u \in Users |-> [k \in {} |-> 0]]
    /\ replies = [u \in Users |-> NoReply]
    /\ typed = [u \in Users |-> NoTyped]
    /\ waived = {}

----------------------------------------------------------------------------
(* bot.py: the handlers.  Each action is one update handled to its end:    *)
(* the Application handles updates one at a time (no concurrent_updates).  *)

(* the prompt start() sends, after the messages of the handler calling it *)
StartReply(msgs, amount) ==
    Reply(msgs \o <<"ChooseAction">>, MainKeyboard, amount)

(* a faulty start, against which C8 is tried: it returns no state, so the   *)
(* ConversationHandler leaves the conversation where it is                  *)
start_no_transition(u) ==
    /\ state' = state
    /\ replies' = [replies EXCEPT ![u] = StartReply(<<>>, 0)]
    /\ typed' = typed
    /\ UNCHANGED <<readers, loans, user_data, waived>>

(* start: the entry point, and the fallback of every state (/start).       *)
(* It leaves context.user_data as it is.                                   *)
start(u) ==
    /\ state' = [state EXCEPT ![u] = MAIN_MENU]
    /\ replies' = [replies EXCEPT ![u] = StartReply(<<>>, 0)]
    /\ typed' = [typed EXCEPT ![u] = NoTyped]
    /\ UNCHANGED <<readers, loans, user_data, waived>>

(* main_menu: the next state and the reply for a choice *)
main_menu_result(rs, ls, choice) ==
    IF choice = ACTION_ADD_READER THEN
        [st |-> READER_NAME, rp |-> Reply(<<"AskName">>, <<>>, 0)]
    ELSE IF choice = ACTION_CHECK_OUT_BOOK THEN
        IF get_all_readers(rs) = <<>>
        THEN [st |-> MAIN_MENU, rp |-> StartReply(<<"NoReaders">>, 0)]
        ELSE [st |-> CHOOSE_READER,
              rp |-> Reply(<<"WhoGetsTheBook">>, ReaderKeyboard(get_all_readers(rs)), 0)]
    ELSE IF choice = ACTION_RETURN_BOOK THEN
        IF get_active_loans(ls) = <<>>
        THEN [st |-> MAIN_MENU, rp |-> StartReply(<<"Empty">>, 0)]
        ELSE [st |-> RETURN_BOOK,
              rp |-> Reply(<<"WhichBookToReturn">>, LoanKeyboard(rs, ls), 0)]
    ELSE IF choice = ACTION_ALL_READERS THEN
        IF get_all_readers(rs) = <<>>
        THEN [st |-> MAIN_MENU, rp |-> StartReply(<<"Nobody">>, 0)]
        ELSE [st |-> MAIN_MENU, rp |-> StartReply(<<"ReaderList">>, 0)]
    ELSE IF choice = ACTION_GET_LOANS THEN
        IF get_active_loans(ls) = <<>>
        THEN [st |-> MAIN_MENU, rp |-> StartReply(<<"NothingLent">>, 0)]
        ELSE [st |-> MAIN_MENU, rp |-> StartReply(<<"LoanList">>, 0)]
    ELSE IF choice = ACTION_SELECT_READER_FOR_BOOKS THEN
        IF get_all_readers(rs) = <<>>
        THEN [st |-> MAIN_MENU, rp |-> StartReply(<<"NoReaders">>, 0)]
        ELSE [st |-> SELECT_READER_FOR_BOOKS,
              rp |-> Reply(<<"ChooseReader">>, ReaderKeyboard(get_all_readers(rs)), 0)]
    ELSE
        [st |-> MAIN_MENU, rp |-> Reply(<<"Emoji">>, <<>>, 0)]

main_menu(u, choice) ==
    /\ state[u] = MAIN_MENU
    /\ ~IsCommand(choice)
    /\ LET r == main_menu_result(readers, loans, choice)
       IN  /\ state' = [state EXCEPT ![u] = r.st]
           /\ replies' = [replies EXCEPT ![u] = r.rp]
    /\ typed' = [typed EXCEPT ![u] = NoTyped]
    /\ UNCHANGED <<readers, loans, user_data, waived>>

(* reader_name: the name kept is the text, a space and a random emoji *)
reader_name(u, text, emoji) ==
    /\ state[u] = READER_NAME
    /\ ~IsCommand(text)
    /\ user_data' = [user_data EXCEPT
                        ![u] = Put(@, "reader_name", text \o <<" ", emoji>>)]
    /\ typed' = [typed EXCEPT ![u].name = text]
    /\ replies' = [replies EXCEPT ![u] = Reply(<<"AskContact">>, <<>>, 0)]
    /\ state' = [state EXCEPT ![u] = READER_CONTACT]
    /\ UNCHANGED <<readers, loans, waived>>

(* a faulty reader_contact, against which C23 is tried: the contact is not *)
(* put in user_data                                                        *)
reader_contact_unsaved(u, text) ==
    /\ state[u] = READER_CONTACT
    /\ ~IsCommand(text)
    /\ Has(user_data[u], "reader_name")
    /\ user_data' = user_data
    /\ typed' = [typed EXCEPT ![u].contact = text]
    /\ replies' = [replies EXCEPT ![u] = Reply(<<"ConfirmReader">>, YesNoKeyboard, 0)]
    /\ state' = [state EXCEPT ![u] = CONFIRM_READER]
    /\ UNCHANGED <<readers, loans, waived>>

reader_contact(u, text) ==
    /\ state[u] = READER_CONTACT
    /\ ~IsCommand(text)
    /\ Has(user_data[u], "reader_name")
    /\ user_data' = [user_data EXCEPT ![u] = Put(@, "reader_contact", text)]
    /\ typed' = [typed EXCEPT ![u].contact = text]
    /\ replies' = [replies EXCEPT ![u] = Reply(<<"ConfirmReader">>, YesNoKeyboard, 0)]
    /\ state' = [state EXCEPT ![u] = CONFIRM_READER]
    /\ UNCHANGED <<readers, loans, waived>>

(* confirm_reader: reached only for YES_BTN or NO_BTN (the Regex filter) *)
confirm_reader(u, text) ==
    /\ state[u] = CONFIRM_READER
    /\ text \in {YES_BTN, NO_BTN}
    /\ IF text = YES_BTN
       THEN /\ Has(user_data[u], "reader_name")
            /\ Has(user_data[u], "reader_contact")
            /\ Len(readers) < MaxReaders
            /\ readers' = add_reader(readers,
                              [name |-> user_data[u]["reader_name"],
                               contact |-> user_data[u]["reader_contact"],
                               deposit_amount |-> 0])
            /\ replies' = [replies EXCEPT ![u] = StartReply(<<"ReaderAdded">>, 0)]
       ELSE /\ readers' = readers
            /\ replies' = [replies EXCEPT ![u] = StartReply(<<"Cancelled">>, 0)]
    /\ state' = [state EXCEPT ![u] = MAIN_MENU]
    /\ typed' = [typed EXCEPT ![u] = NoTyped]
    /\ UNCHANGED <<loans, user_data, waived>>

(* a faulty choose_reader, against which C24 is tried: a reader selected   *)
(* in an earlier flow is not replaced (setdefault)                         *)
choose_reader_setdefault(u, choice) ==
    /\ state[u] = CHOOSE_READER
    /\ ~IsCommand(choice)
    /\ IF choice = ACTION_BACK THEN
           /\ state' = [state EXCEPT ![u] = MAIN_MENU]
           /\ replies' = [replies EXCEPT ![u] = StartReply(<<>>, 0)]
           /\ user_data' = user_data
       ELSE IF get_reader_by_name(readers, choice) = NoReader THEN
           /\ state' = [state EXCEPT ![u] = CHOOSE_READER]
           /\ replies' = [replies EXCEPT ![u] = Reply(<<"ReaderNotFound">>, <<>>, 0)]
           /\ user_data' = user_data
       ELSE
           /\ state' = [state EXCEPT ![u] = PROCESS_BOOK]
           /\ replies' = [replies EXCEPT ![u] = Reply(<<"AskBookTitle">>, <<>>, 0)]
           /\ user_data' = IF Has(user_data[u], "selected_reader") THEN user_data
                            ELSE [user_data EXCEPT
                   ![u] = Put(@, "selected_reader", get_reader_by_name(readers, choice))]
    /\ typed' = [typed EXCEPT
                    ![u] = IF choice = ACTION_BACK THEN NoTyped
                           ELSE IF get_reader_by_name(readers, choice) = NoReader
                           THEN [@ EXCEPT !.last = choice]
                           ELSE [@ EXCEPT !.reader = choice, !.last = <<>>]]
    /\ UNCHANGED <<readers, loans, waived>>

(* choose_reader: the reader document found is kept in user_data as read *)
choose_reader(u, choice) ==
    /\ state[u] = CHOOSE_READER
    /\ ~IsCommand(choice)
    /\ IF choice = ACTION_BACK THEN
           /\ state' = [state EXCEPT ![u] = MAIN_MENU]
           /\ replies' = [replies EXCEPT ![u] = StartReply(<<>>, 0)]
           /\ user_data' = user_data
       ELSE IF get_reader_by_name(readers, choice) = NoReader THEN
           /\ state' = [state EXCEPT ![u] = CHOOSE_READER]
           /\ replies' = [replies EXCEPT ![u] = Reply(<<"ReaderNotFound">>, <<>>, 0)]
           /\ user_data' = user_data
       ELSE
           /\ state' = [state EXCEPT ![u] = PROCESS_BOOK]
           /\ replies' = [replies EXCEPT ![u] = Reply(<<"AskBookTitle">>, <<>>, 0)]
           /\ user_data' = [user_data EXCEPT
                   ![u] = Put(@, "selected_reader", get_reader_by_name(readers, choice))]
    /\ typed' = [typed EXCEPT
                    ![u] = IF choice = ACTION_BACK THEN NoTyped
                           ELSE IF get_reader_by_name(readers, choice) = NoReader
                           THEN [@ EXCEPT !.last = choice]
                           ELSE [@ EXCEPT !.reader = choice, !.last = <<>>]]
    /\ UNCHANGED <<readers, loans, waived>>

(* bot.py:320 *)
DepositKeyboard == <<<<"1", "0">>, <<"2", "0">>, <<"5", "0">>, ACTION_BACK>>

(* a faulty process_book, against which C15 is tried: with an active loan  *)
(* on file it leaves deposit_needed as an earlier flow set it               *)
process_book_stale(u, book_title) ==
    /\ state[u] = PROCESS_BOOK
    /\ ~IsCommand(book_title)
    /\ Has(user_data[u], "selected_reader")
    /\ LET reader == user_data[u]["selected_reader"]
           current_loans == get_reader_active_loans(loans, reader.id)
       IN  /\ typed' = [typed EXCEPT ![u].title = book_title,
                                     ![u].amount = <<>>,
                                     ![u].prior = Len(current_loans)]
           /\ IF current_loans = <<>> THEN
                  /\ user_data' = [user_data EXCEPT
                         ![u] = Put(Put(@, "book_title", book_title),
                                    "pending_book", book_title)]
                  /\ replies' = [replies EXCEPT
                         ![u] = Reply(<<"AskDeposit">>, DepositKeyboard, 0)]
                  /\ state' = [state EXCEPT ![u] = DEPOSIT_AMOUNT]
              ELSE
                  /\ user_data' = [user_data EXCEPT
                         ![u] = Put(@, "book_title", book_title)]
                  /\ replies' = [replies EXCEPT
                         ![u] = Reply(<<"NoDepositNeededConfirm">>, YesNoKeyboard, 0)]
                  /\ state' = [state EXCEPT ![u] = CONFIRM_BOOK]
    /\ UNCHANGED <<readers, loans, waived>>

(* process_book: a deposit is asked for only when the reader has no active *)
(* loan at this moment                                                      *)
process_book(u, book_title) ==
    /\ state[u] = PROCESS_BOOK
    /\ ~IsCommand(book_title)
    /\ Has(user_data[u], "selected_reader")
    /\ LET reader == user_data[u]["selected_reader"]
           current_loans == get_reader_active_loans(loans, reader.id)
       IN  /\ typed' = [typed EXCEPT ![u].title = book_title,
                                     ![u].amount = <<>>,
                                     ![u].prior = Len(current_loans)]
           /\ IF current_loans = <<>> THEN
                  /\ user_data' = [user_data EXCEPT
                         ![u] = Put(Put(@, "book_title", book_title),
                                    "pending_book", book_title)]
                  /\ replies' = [replies EXCEPT
                         ![u] = Reply(<<"AskDeposit">>, DepositKeyboard, 0)]
                  /\ state' = [state EXCEPT ![u] = DEPOSIT_AMOUNT]
              ELSE
                  /\ user_data' = [user_data EXCEPT
                         ![u] = Put(Put(@, "book_title", book_title),
                                    "deposit_needed", 0)]
                  /\ replies' = [replies EXCEPT
                         ![u] = Reply(<<"NoDepositNeededConfirm">>, YesNoKeyboard, 0)]
                  /\ state' = [state EXCEPT ![u] = CONFIRM_BOOK]
    /\ UNCHANGED <<readers, loans, waived>>

(* a faulty deposit_amount_input, against which C16 is tried: a text that  *)
(* is no integer is taken as a deposit of 0                                 *)
deposit_amount_input_zero(u, choice) ==
    /\ state[u] = DEPOSIT_AMOUNT
    /\ ~IsCommand(choice)
    /\ Has(user_data[u], "selected_reader")
    /\ Has(user_data[u], "pending_book")
    /\ IF choice = ACTION_BACK THEN
           /\ state' = [state EXCEPT ![u] = MAIN_MENU]
           /\ replies' = [replies EXCEPT ![u] = StartReply(<<>>, 0)]
           /\ typed' = [typed EXCEPT ![u] = NoTyped]
           /\ user_data' = user_data
       ELSE
           LET deposit == IF int_ok(choice) THEN int(choice) ELSE 0
           IN  /\ user_data' = [user_data EXCEPT
                      ![u] = Put(Put(@, "deposit_needed", deposit),
                                 "book_title", user_data[u]["pending_book"])]
               /\ typed' = [typed EXCEPT ![u].amount = choice]
               /\ replies' = [replies EXCEPT
                      ![u] = Reply(<<"ConfirmLoan">>, YesNoKeyboard, deposit)]
               /\ state' = [state EXCEPT ![u] = CONFIRM_BOOK]
    /\ UNCHANGED <<readers, loans, waived>>

deposit_amount_input(u, choice) ==
    /\ state[u] = DEPOSIT_AMOUNT
    /\ ~IsCommand(choice)
    /\ Has(user_data[u], "selected_reader")
    /\ Has(user_data[u], "pending_book")
    /\ IF choice = ACTION_BACK THEN
           /\ state' = [state EXCEPT ![u] = MAIN_MENU]
           /\ replies' = [replies EXCEPT ![u] = StartReply(<<>>, 0)]
           /\ typed' = [typed EXCEPT ![u] = NoTyped]
           /\ user_data' = user_data
       ELSE IF ~int_ok(choice) THEN
           /\ state' = [state EXCEPT ![u] = DEPOSIT_AMOUNT]
           /\ replies' = [replies EXCEPT ![u] = Reply(<<"NotANumber">>, <<>>, 0)]
           /\ UNCHANGED <<user_data, typed>>
       ELSE
           /\ user_data' = [user_data EXCEPT
                  ![u] = Put(Put(@, "deposit_needed", int(choice)),
                             "book_title", user_data[u]["pending_book"])]
           /\ typed' = [typed EXCEPT ![u].amount = choice]
           /\ replies' = [replies EXCEPT
                  ![u] = Reply(<<"ConfirmLoan">>, YesNoKeyboard, int(choice))]
           /\ state' = [state EXCEPT ![u] = CONFIRM_BOOK]
    /\ UNCHANGED <<readers, loans, waived>>

(* a faulty confirm_book, against which C17 is tried: the deposit is        *)
(* written before the answer is looked at                                   *)
confirm_book_eager(u, text) ==
    /\ state[u] = CONFIRM_BOOK
    /\ text \in {YES_BTN, NO_BTN}
    /\ Has(user_data[u], "selected_reader")
    /\ Has(user_data[u], "book_title")
    /\ Has(user_data[u], "deposit_needed")
    /\ LET reader == user_data[u]["selected_reader"]
           book_title == user_data[u]["book_title"]
           deposit_needed == user_data[u]["deposit_needed"]
       IN  /\ readers' = IF deposit_needed > 0
                         THEN update_reader_deposit(readers, reader.id,
                                                    deposit_needed)
                         ELSE readers
           /\ IF text = YES_BTN
              THEN /\ Len(loans) < MaxLoans
                   /\ loans' = add_loan(loans, [reader_id |-> reader.id,
                                                book_title |-> book_title,
                                                is_active |-> TRUE])
                   /\ replies' = [replies EXCEPT
                          ![u] = StartReply(<<"BookIssued">>,
                                     IF deposit_needed > 0 THEN deposit_needed ELSE 0)]
                   /\ waived' = IF typed[u].amount = <<>> THEN waived
                                ELSE IF deposit_needed > 0 THEN waived \ {reader.id}
                                ELSE waived \cup {reader.id}
              ELSE /\ loans' = loans
                   /\ replies' = [replies EXCEPT ![u] = StartReply(<<"Cancelled">>, 0)]
                   /\ waived' = waived
    /\ state' = [state EXCEPT ![u] = MAIN_MENU]
    /\ typed' = [typed EXCEPT ![u] = NoTyped]
    /\ UNCHANGED user_data

(* a faulty confirm_book, against which C20 is tried: the deposit is        *)
(* written whatever its sign                                                *)
confirm_book_unguarded(u, text) ==
    /\ state[u] = CONFIRM_BOOK
    /\ text \in {YES_BTN, NO_BTN}
    /\ IF text = YES_BTN
       THEN /\ Has(user_data[u], "selected_reader")
            /\ Has(user_data[u], "book_title")
            /\ Has(user_data[u], "deposit_needed")
            /\ Len(loans) < MaxLoans
            /\ LET reader == user_data[u]["selected_reader"]
                   book_title == user_data[u]["book_title"]
                   deposit_needed == user_data[u]["deposit_needed"]
               IN  /\ readers' = IF deposit_needed # 0
                                 THEN update_reader_deposit(readers, reader.id,
                                                            deposit_needed)
                                 ELSE readers
                   /\ loans' = add_loan(loans, [reader_id |-> reader.id,
                                                book_title |-> book_title,
                                                is_active |-> TRUE])
                   /\ replies' = [replies EXCEPT
                          ![u] = StartReply(<<"BookIssued">>,
                                     IF deposit_needed > 0 THEN deposit_needed ELSE 0)]
                   /\ waived' = IF typed[u].amount = <<>> THEN waived
                                ELSE IF deposit_needed > 0 THEN waived \ {reader.id}
                                ELSE waived \cup {reader.id}
       ELSE /\ readers' = readers
            /\ loans' = loans
            /\ replies' = [replies EXCEPT ![u] = StartReply(<<"Cancelled">>, 0)]
            /\ waived' = waived
    /\ state' = [state EXCEPT ![u] = MAIN_MENU]
    /\ typed' = [typed EXCEPT ![u] = NoTyped]
    /\ UNCHANGED user_data

(* confirm_book: reached only for YES_BTN or NO_BTN (the Regex filter).    *)
(* The deposit is written first, and only when it is positive; then the    *)
(* loan is inserted.                                                       *)
confirm_book(u, text) ==
    /\ state[u] = CONFIRM_BOOK
    /\ text \in {YES_BTN, NO_BTN}
    /\ IF text = YES_BTN
       THEN /\ Has(user_data[u], "selected_reader")
            /\ Has(user_data[u], "book_title")
            /\ Has(user_data[u], "deposit_needed")
            /\ Len(loans) < MaxLoans
            /\ LET reader == user_data[u]["selected_reader"]
                   book_title == user_data[u]["book_title"]
                   deposit_needed == user_data[u]["deposit_needed"]
               IN  /\ readers' = IF deposit_needed > 0
                                 THEN update_reader_deposit(readers, reader.id,
                                                            deposit_needed)
                                 ELSE readers
                   /\ loans' = add_loan(loans, [reader_id |-> reader.id,
                                                book_title |-> book_title,
                                                is_active |-> TRUE])
                   /\ replies' = [replies EXCEPT
                          ![u] = StartReply(<<"BookIssued">>,
                                     IF deposit_needed > 0 THEN deposit_needed ELSE 0)]
                   /\ waived' = IF typed[u].amount = <<>> THEN waived
                                ELSE IF deposit_needed > 0 THEN waived \ {reader.id}
                                ELSE waived \cup {reader.id}
       ELSE /\ readers' = readers
            /\ loans' = loans
            /\ replies' = [replies EXCEPT ![u] = StartReply(<<"Cancelled">>, 0)]
            /\ waived' = waived
    /\ state' = [state EXCEPT ![u] = MAIN_MENU]
    /\ typed' = [typed EXCEPT ![u] = NoTyped]
    /\ UNCHANGED user_data

(* bot.py:408-414: choice.split(": ") must give exactly two parts (else     *)
(* the unpacking raises ValueError); both are stripped                      *)
parse_label(choice) ==
    LET parts == split(choice, <<":", " ">>)
    IN  IF Len(parts) # 2
        THEN [ok |-> FALSE, reader_name |-> <<>>, book_title |-> <<>>]
        ELSE [ok |-> TRUE,
              reader_name |-> strip(parts[1]),
              book_title |-> strip(parts[2])]

(* return_book (the handler) *)
return_book(u, choice) ==
    /\ state[u] = RETURN_BOOK
    /\ ~IsCommand(choice)
    /\ IF choice = ACTION_BACK THEN
           /\ state' = [state EXCEPT ![u] = MAIN_MENU]
           /\ replies' = [replies EXCEPT ![u] = StartReply(<<>>, 0)]
           /\ typed' = [typed EXCEPT ![u] = NoTyped]
           /\ UNCHANGED <<readers, loans, waived>>
       ELSE IF ~parse_label(choice).ok THEN
           /\ state' = [state EXCEPT ![u] = RETURN_BOOK]
           /\ replies' = [replies EXCEPT ![u] = Reply(<<"BadChoice">>, <<>>, 0)]
           /\ typed' = [typed EXCEPT ![u].last = choice]
           /\ UNCHANGED <<readers, loans, waived>>
       ELSE IF get_reader_by_name(readers, parse_label(choice).reader_name) = NoReader THEN
           /\ state' = [state EXCEPT ![u] = RETURN_BOOK]
           /\ replies' = [replies EXCEPT ![u] = Reply(<<"ReaderNotFound">>, <<>>, 0)]
           /\ typed' = [typed EXCEPT ![u].last = choice]
           /\ UNCHANGED <<readers, loans, waived>>
       ELSE
           LET reader == get_reader_by_name(readers, parse_label(choice).reader_name)
               book_title == parse_label(choice).book_title
               result == db_return_book_result(loans, reader.id, book_title)
               closed == db_return_book(loans, reader.id, book_title)
               active_loans == get_reader_active_loans(closed, reader.id)
           IN  /\ loans' = closed
               /\ waived' = IF result /\ active_loans = <<>>
                            THEN waived \ {reader.id} ELSE waived
               /\ typed' = [w \in Users |->
                      IF w = u THEN NoTyped
                      ELSE IF result /\ state[w] = RETURN_BOOK
                      THEN [typed[w] EXCEPT !.rival = choice,
                                            !.rivalReset = (active_loans = <<>>)]
                      ELSE typed[w]]
               /\ IF result /\ active_loans = <<>> THEN
                      /\ readers' = update_reader_deposit(readers, reader.id, 0)
                      /\ replies' = [replies EXCEPT
                             ![u] = StartReply(<<"ReturnedLastBook">>,
                                               reader.deposit_amount)]
                  ELSE IF result THEN
                      /\ readers' = readers
                      /\ replies' = [replies EXCEPT ![u] = StartReply(<<"Returned">>, 0)]
                  ELSE
                      /\ readers' = readers
                      /\ replies' = [replies EXCEPT
                             ![u] = StartReply(<<"ReturnError">>, 0)]
               /\ state' = [state EXCEPT ![u] = MAIN_MENU]
    /\ UNCHANGED user_data

(* select_reader_for_books: read-only; the message names the deposit when  *)
(* the reader has active loans and a positive deposit                      *)
select_reader_for_books(u, choice) ==
    /\ state[u] = SELECT_READER_FOR_BOOKS
    /\ ~IsCommand(choice)
    /\ IF choice = ACTION_BACK THEN
           /\ state' = [state EXCEPT ![u] = MAIN_MENU]
           /\ replies' = [replies EXCEPT ![u] = StartReply(<<>>, 0)]
       ELSE IF get_reader_by_name(readers, choice) = NoReader THEN
           /\ state' = [state EXCEPT ![u] = SELECT_READER_FOR_BOOKS]
           /\ replies' = [replies EXCEPT ![u] = Reply(<<"ReaderNotFound">>, <<>>, 0)]
       ELSE
           LET reader == get_reader_by_name(readers, choice)
               rloans == get_reader_active_loans(loans, reader.id)
           IN  /\ state' = [state EXCEPT ![u] = MAIN_MENU]
               /\ replies' = [replies EXCEPT
                      ![u] = IF rloans = <<>>
                             THEN StartReply(<<"NoActiveLoans">>, 0)
                             ELSE StartReply(<<"ReaderLoans">>,
                                      IF reader.deposit_amount > 0
                                      THEN reader.deposit_amount ELSE 0)]
    /\ typed' = [typed EXCEPT
                    ![u] = IF choice # ACTION_BACK
                              /\ get_reader_by_name(readers, choice) = NoReader
                           THEN [@ EXCEPT !.last = choice]
                           ELSE NoTyped]
    /\ UNCHANGED <<readers, loans, user_data, waived>>

(* an update no handler of the current state accepts: a text before /start, *)
(* a text other than the two buttons in a confirming state, a command other *)
(* than /start.  Nothing changes.                                           *)
no_handler(st, text) ==
    IF st = IDLE THEN TRUE
    ELSE IF st \in {CONFIRM_READER, CONFIRM_BOOK} THEN text \notin {YES_BTN, NO_BTN}
    ELSE IsCommand(text)

unhandled(u, text) ==
    /\ no_handler(state[u], text)
    /\ UNCHANGED vars

----------------------------------------------------------------------------
(* The texts the users send.  Every handler takes any text; the model      *)
(* draws from the texts that make its branches differ.                     *)

NameTexts == {<<"a">>}
ContactTexts == {<<"c">>}

(* a plain title and one that holds the separator, as "Dune: Messiah" does *)
TitleTexts == {<<"a">>, <<"a", ":", " ", "b">>}

(* a positive, a zero and a negative amount, and a text that is no integer *)
AmountTexts == {<<"5", "0">>, <<"0">>, <<"-", "5">>, <<"a">>}

(* a text that names no reader, a label of an unknown reader, a command *)
OtherTexts == {<<"a">>, <<"b", ":", " ", "a">>, <<"/", "x">>}

Range(f) == {f[i] : i \in DOMAIN f}

(* the labels of a known reader with any title, on loan or not *)
KnownReaderLabels ==
    {readers[i].name \o <<":", " ">> \o t : i \in 1..Len(readers), t \in TitleTexts}

(* the labels of all loans on file, open or closed: the buttons of a        *)
(* keyboard rendered now or earlier                                         *)
AllLoanLabels == {LoanLabel(readers, loans[k]) : k \in 1..Len(loans)}

TextsFor(u) ==
    IF state[u] = MAIN_MENU THEN Range(MainKeyboard) \cup OtherTexts
    ELSE IF state[u] = READER_NAME THEN NameTexts
    ELSE IF state[u] = READER_CONTACT THEN ContactTexts
    ELSE IF state[u] \in {CHOOSE_READER, SELECT_READER_FOR_BOOKS}
        THEN Range(ReaderKeyboard(readers)) \cup OtherTexts
    ELSE IF state[u] = PROCESS_BOOK THEN TitleTexts
    ELSE IF state[u] = DEPOSIT_AMOUNT THEN AmountTexts \cup {ACTION_BACK}
    ELSE IF state[u] = RETURN_BOOK
        THEN Range(LoanKeyboard(readers, loans)) \cup KnownReaderLabels \cup OtherTexts
    ELSE {YES_BTN, NO_BTN} \cup OtherTexts

(* one update of user u: /start, or one of the texts *)
TurnWith(u, texts) ==
    \/ start(u)
    \/ \E t \in texts : main_menu(u, t)
    \/ \E t \in texts, e \in animal_emojis : reader_name(u, t, e)
    \/ \E t \in texts : reader_contact(u, t)
    \/ \E t \in texts : confirm_reader(u, t)
    \/ \E t \in texts : choose_reader(u, t)
    \/ \E t \in texts : process_book(u, t)
    \/ \E t \in texts : deposit_amount_input(u, t)
    \/ \E t \in texts : confirm_book(u, t)
    \/ \E t \in texts : return_book(u, t)
    \/ \E t \in texts : select_reader_for_books(u, t)
    \/ \E t \in texts : unhandled(u, t)

Turn(u) == TurnWith(u, TextsFor(u))

(* one librarian talks to the bot *)
Next == Turn(1)

Spec == Init /\ [][Next]_vars

----------------------------------------------------------------------------
(* Repository failures.  Every method of MongoDBHandler logs an exception   *)
(* of its pymongo call and raises it again (database.py:61-63 and alike);   *)
(* no handler of bot.py catches it (the only except clauses are for         *)
(* ValueError, bot.py:349, 412); error() logs it (bot.py:475-477).          *)

(* a faulty outcome of a raising handler, against which C11 is tried: the   *)
(* error handler restarts the conversation                                 *)
raised_to_menu(u) ==
    /\ state' = [state EXCEPT ![u] = MAIN_MENU]
    /\ UNCHANGED <<replies, waived>>

(* the handler of user u's update raised: the ConversationHandler gets no   *)
(* state back and keeps the one it has; the update is answered by nothing, *)
(* so the last reply stands                                                *)
raised(u) ==
    /\ state' = state
    /\ UNCHANGED <<replies, waived>>

(* the history of a failed update: the first failure of a text is kept *)
Failed(u, text, matching) ==
    [typed EXCEPT ![u].failed =
        IF @.text = text THEN @
        ELSE [text |-> text, loans |-> Len(loans), matching |-> matching]]

(* main_menu: get_all_readers, get_active_loans or get_reader_by_id raises *)
main_menu_raises(u, choice) ==
    /\ state[u] = MAIN_MENU
    /\ choice \in {ACTION_CHECK_OUT_BOOK, ACTION_RETURN_BOOK, ACTION_ALL_READERS,
                   ACTION_GET_LOANS, ACTION_SELECT_READER_FOR_BOOKS}
    /\ raised(u)
    /\ UNCHANGED <<readers, loans, user_data, typed>>

(* confirm_reader: add_reader raises *)
confirm_reader_raises(u, text) ==
    /\ state[u] = CONFIRM_READER
    /\ text = YES_BTN
    /\ Has(user_data[u], "reader_name")
    /\ Has(user_data[u], "reader_contact")
    /\ raised(u)
    /\ UNCHANGED <<readers, loans, user_data, typed>>

(* choose_reader: get_reader_by_name raises *)
choose_reader_raises(u, choice) ==
    /\ state[u] = CHOOSE_READER
    /\ ~IsCommand(choice)
    /\ choice # ACTION_BACK
    /\ raised(u)
    /\ UNCHANGED <<readers, loans, user_data, typed>>

(* process_book: get_reader_active_loans raises, after the title was put   *)
(* in user_data (bot.py:313)                                               *)
process_book_raises(u, book_title) ==
    /\ state[u] = PROCESS_BOOK
    /\ ~IsCommand(book_title)
    /\ Has(user_data[u], "selected_reader")
    /\ user_data' = [user_data EXCEPT ![u] = Put(@, "book_title", book_title)]
    /\ raised(u)
    /\ UNCHANGED <<readers, loans, typed>>

(* confirm_book: update_reader_deposit raises, or add_loan raises after    *)
(* the deposit was written                                                 *)
confirm_book_raises(u, text, call) ==
    /\ state[u] = CONFIRM_BOOK
    /\ text = YES_BTN
    /\ Has(user_data[u], "selected_reader")
    /\ Has(user_data[u], "book_title")
    /\ Has(user_data[u], "deposit_needed")
    /\ LET reader == user_data[u]["selected_reader"]
           deposit_needed == user_data[u]["deposit_needed"]
       IN  IF call = "update_reader_deposit"
           THEN /\ deposit_needed > 0
                /\ readers' = readers
           ELSE /\ call = "add_loan"
                /\ readers' = IF deposit_needed > 0
                              THEN update_reader_deposit(readers, reader.id,
                                                         deposit_needed)
                              ELSE readers
    /\ typed' = Failed(u, text, 0)
    /\ raised(u)
    /\ UNCHANGED <<loans, user_data>>

(* return_book (the handler): one of its four repository calls raises; the *)
(* last two are made after the loan was closed                             *)
return_book_raises(u, choice, call) ==
    /\ state[u] = RETURN_BOOK
    /\ ~IsCommand(choice)
    /\ choice # ACTION_BACK
    /\ parse_label(choice).ok
    /\ LET reader == get_reader_by_name(readers, parse_label(choice).reader_name)
           book_title == parse_label(choice).book_title
           result == db_return_book_result(loans, reader.id, book_title)
           closed == db_return_book(loans, reader.id, book_title)
           active_loans == get_reader_active_loans(closed, reader.id)
       IN  IF call = "get_reader_by_name" THEN loans' = loans
           ELSE IF call = "return_book" THEN
               /\ reader # NoReader
               /\ loans' = loans
           ELSE IF call = "get_reader_active_loans" THEN
               /\ reader # NoReader
               /\ result
               /\ loans' = closed
           ELSE
               /\ call = "update_reader_deposit"
               /\ reader # NoReader
               /\ result
               /\ active_loans = <<>>
               /\ loans' = closed
    /\ typed' = Failed(u, choice,
                  Len(MatchingPositions(loans,
                          get_reader_by_name(readers,
                              parse_label(choice).reader_name).id,
                          parse_label(choice).book_title)))
    /\ raised(u)
    /\ UNCHANGED <<readers, user_data>>

(* select_reader_for_books: get_reader_by_name or get_reader_active_loans  *)
(* raises                                                                  *)
select_reader_for_books_raises(u, choice) ==
    /\ state[u] = SELECT_READER_FOR_BOOKS
    /\ ~IsCommand(choice)
    /\ choice # ACTION_BACK
    /\ raised(u)
    /\ UNCHANGED <<readers, loans, user_data, typed>>

(* the texts of a librarian who registers readers, lends, takes back and   *)
(* looks up a reader by the buttons offered, enters one title and a        *)
(* positive amount, and sends one command the bot does not know            *)
FailTexts(u) ==
    (IF state[u] = MAIN_MENU
        THEN {ACTION_ADD_READER, ACTION_CHECK_OUT_BOOK, ACTION_RETURN_BOOK,
              ACTION_SELECT_READER_FOR_BOOKS}
     ELSE IF state[u] = READER_NAME THEN NameTexts
     ELSE IF state[u] = READER_CONTACT THEN ContactTexts
     ELSE IF state[u] \in {CHOOSE_READER, SELECT_READER_FOR_BOOKS}
        THEN Range(ReaderKeyboard(readers))
     ELSE IF state[u] = PROCESS_BOOK THEN {<<"a">>}
     ELSE IF state[u] = DEPOSIT_AMOUNT THEN {<<"5", "0">>, ACTION_BACK}
     ELSE IF state[u] = RETURN_BOOK THEN AllLoanLabels \cup {ACTION_BACK}
     ELSE {YES_BTN, NO_BTN})
    \cup {<<"/", "x">>}

(* one update of user u during which a repository call raises *)
Raises(u) ==
    \/ \E t \in FailTexts(u) : main_menu_raises(u, t)
    \/ \E t \in FailTexts(u) : confirm_reader_raises(u, t)
    \/ \E t \in FailTexts(u) : choose_reader_raises(u, t)
    \/ \E t \in FailTexts(u) : process_book_raises(u, t)
    \/ \E t \in FailTexts(u) :
          \E call \in {"update_reader_deposit", "add_loan"} :
              confirm_book_raises(u, t, call)
    \/ \E t \in FailTexts(u) :
          \E call \in {"get_reader_by_name", "return_book",
                       "get_reader_active_loans", "update_reader_deposit"} :
              return_book_raises(u, t, call)
    \/ \E t \in FailTexts(u) : select_reader_for_books_raises(u, t)

(* one librarian talks to the bot and the storage may fail at any call *)
NextFail == TurnWith(1, FailTexts(1)) \/ Raises(1)

SpecFail == Init /\ [][NextFail]_vars

----------------------------------------------------------------------------
(* Two librarians.  Each has its own conversation state and user_data (the  *)
(* ConversationHandler and context.user_data are per user); the collections *)
(* are shared.  The Application handles one update to its end before the    *)
(* next, so the turns of the two interleave and no turn is split.           *)

(* the first librarian registers readers, lends, takes back and looks up a  *)
(* reader; the second only takes back.  The title is one, every amount is   *)
(* positive.                                                                *)
TwoTexts(u) ==
    (IF state[u] = MAIN_MENU
        THEN IF u = 1
             THEN {ACTION_ADD_READER, ACTION_CHECK_OUT_BOOK, ACTION_RETURN_BOOK,
                   ACTION_SELECT_READER_FOR_BOOKS}
             ELSE {ACTION_RETURN_BOOK}
     ELSE IF state[u] = READER_NAME THEN NameTexts
     ELSE IF state[u] = READER_CONTACT THEN ContactTexts
     ELSE IF state[u] \in {CHOOSE_READER, SELECT_READER_FOR_BOOKS}
        THEN Range(ReaderKeyboard(readers))
     ELSE IF state[u] = PROCESS_BOOK THEN {<<"a">>}
     ELSE IF state[u] = DEPOSIT_AMOUNT THEN {<<"5", "0">>}
     ELSE IF state[u] = RETURN_BOOK THEN AllLoanLabels \cup {ACTION_BACK}
     ELSE {YES_BTN, NO_BTN})
    \cup {<<"/", "x">>}

NextTwo == \E u \in Users : TurnWith(u, TwoTexts(u))

SpecTwo == Init /\ [][NextTwo]_vars

----------------------------------------------------------------------------
(* What the properties below speak of *)

ActiveCount(ls, reader_id) == Len(ReaderActivePositions(ls, reader_id))

NewLoan(reader_id, book_title) ==
    [reader_id |-> reader_id, book_title |-> book_title,
     is_active |-> TRUE, return_date |-> 0]

(* rs2 is rs with one reader more, of this name and contact and deposit 0 *)
OneReaderAdded(rs, rs2, name, contact) ==
    /\ Len(rs2) = Len(rs) + 1
    /\ SubSeq(rs2, 1, Len(rs)) = rs
    /\ rs2[Len(rs2)].name = name
    /\ rs2[Len(rs2)].contact = contact
    /\ rs2[Len(rs2)].deposit_amount = 0

(* the reader the user chose in the checkout flow user u is in *)
ChosenReader(u) == get_reader_by_name(readers, typed[u].reader)

(* the positions at which two loan collections of equal length differ *)
Changed(ls, ls2) == {i \in 1..Len(ls) : ls2[i] # ls[i]}

(* the texts user u may have sent in ChoosingLoanToReturn in a step that   *)
(* changes the loans into ls2                                              *)
ReturnTexts(u, ls2) ==
    IF state[u] = RETURN_BOOK /\ ls2 # loans THEN TextsFor(u) ELSE {}

----------------------------------------------------------------------------
(* C1, as stated: in every registration flow, answering Yes in              *)
(* ConfirmingReader adds exactly one Reader whose name and contact are the  *)
(* texts the user entered and whose deposit is 0; answering No adds none;   *)
(* either way the loans and the other readers are unchanged.                *)
C1_AsStated ==
    [][\A u \in Users :
        /\ confirm_reader(u, YES_BTN) =>
              /\ OneReaderAdded(readers, readers', typed[u].name, typed[u].contact)
              /\ loans' = loans
        /\ confirm_reader(u, NO_BTN) => readers' = readers /\ loans' = loans]_vars

(* C1, amended: as C1, but the name of the Reader added is the text the     *)
(* user entered followed by a space and one of the animal emoji; the        *)
(* contact is the text entered and the deposit is 0.                        *)
C1_Registration ==
    [][\A u \in Users :
        /\ confirm_reader(u, YES_BTN) =>
              /\ \E e \in animal_emojis :
                    OneReaderAdded(readers, readers',
                                   typed[u].name \o <<" ", e>>, typed[u].contact)
              /\ loans' = loans
        /\ confirm_reader(u, NO_BTN) => readers' = readers /\ loans' = loans]_vars

(* a registration was confirmed with Yes and the new reader is in the registry *)
C1_Witness ==
    \E u \in Users :
        /\ state[u] = MAIN_MENU
        /\ replies[u].msgs = <<"ReaderAdded", "ChooseAction">>
        /\ readers # <<>>
        /\ readers[Len(readers)].name = user_data[u]["reader_name"]
        /\ readers[Len(readers)].deposit_amount = 0

----------------------------------------------------------------------------
(* C2, as stated: when the chosen reader had no active loan as the title    *)
(* was entered, then for every integer amount accepted, answering Yes in    *)
(* ConfirmingCheckout creates exactly one new active Loan for that reader   *)
(* and title and leaves the reader's deposit equal to the amount entered.   *)
C2_AsStated ==
    [][\A u \in Users :
        (confirm_book(u, YES_BTN) /\ typed[u].prior = 0 /\ typed[u].amount # <<>>) =>
            /\ loans' = Append(loans, NewLoan(ChosenReader(u).id, typed[u].title))
            /\ readers'[ChosenReader(u).id].deposit_amount = int(typed[u].amount)]_vars

(* C2, amended: as C2, but the deposit becomes the amount entered only when *)
(* that amount is positive; for an amount of zero or less the deposit is    *)
(* left as it was.                                                          *)
C2_Checkout ==
    [][\A u \in Users :
        (confirm_book(u, YES_BTN) /\ typed[u].prior = 0 /\ typed[u].amount # <<>>) =>
            /\ loans' = Append(loans, NewLoan(ChosenReader(u).id, typed[u].title))
            /\ readers'[ChosenReader(u).id].deposit_amount =
                  IF int(typed[u].amount) > 0
                  THEN int(typed[u].amount)
                  ELSE readers[ChosenReader(u).id].deposit_amount]_vars

(* a first checkout was confirmed and the positive amount entered is on file *)
C2_Witness ==
    \E u \in Users, i \in 1..Len(readers) :
        /\ state[u] = MAIN_MENU
        /\ replies[u].msgs = <<"BookIssued", "ChooseAction">>
        /\ replies[u].amount > 0
        /\ user_data[u]["selected_reader"].id = i
        /\ readers[i].deposit_amount = replies[u].amount
        /\ ActiveCount(loans, i) = 1

----------------------------------------------------------------------------
(* C3: when the chosen reader has an active loan as the title is entered,   *)
(* the session goes from AwaitingBookTitle straight to ConfirmingCheckout,  *)
(* and answering Yes there creates the Loan and leaves the reader's         *)
(* deposit at the value it had before the flow.                             *)
C3_NoSecondDeposit ==
    [][\A u \in Users :
        /\ \A t \in (IF state[u] = PROCESS_BOOK THEN TextsFor(u) ELSE {}) :
              (process_book(u, t) /\ ActiveCount(loans, ChosenReader(u).id) >= 1) =>
                  state'[u] = CONFIRM_BOOK
        /\ (confirm_book(u, YES_BTN) /\ typed[u].prior >= 1) =>
              /\ loans' = Append(loans, NewLoan(ChosenReader(u).id, typed[u].title))
              /\ readers'[ChosenReader(u).id].deposit_amount =
                    user_data[u]["selected_reader"].deposit_amount
              /\ readers' = readers]_vars

(* a second checkout was confirmed for a reader whose deposit is on file *)
C3_Witness ==
    \E u \in Users, i \in 1..Len(readers) :
        /\ state[u] = MAIN_MENU
        /\ replies[u].msgs = <<"BookIssued", "ChooseAction">>
        /\ replies[u].amount = 0
        /\ user_data[u]["selected_reader"].id = i
        /\ ActiveCount(loans, i) >= 2
        /\ readers[i].deposit_amount > 0

----------------------------------------------------------------------------
(* C4: when a return closes the only active loan of a reader, the reader's  *)
(* deposit is 0 afterwards and the amount the reply names is the deposit    *)
(* that was on file just before.                                            *)
C4_LastReturn ==
    [][\A u \in Users : \A t \in ReturnTexts(u, loans') :
        return_book(u, t) =>
            \A i \in Changed(loans, loans') :
                ActiveCount(loans, loans[i].reader_id) = 1 =>
                    /\ readers'[loans[i].reader_id].deposit_amount = 0
                    /\ replies'[u].msgs = <<"ReturnedLastBook", "ChooseAction">>
                    /\ replies'[u].amount = readers[loans[i].reader_id].deposit_amount]_vars

(* the last book of a reader came back and the refund of the deposit is named *)
C4_Witness ==
    \E u \in Users :
        /\ state[u] = MAIN_MENU
        /\ replies[u].msgs = <<"ReturnedLastBook", "ChooseAction">>
        /\ replies[u].amount > 0
        /\ \E i \in 1..Len(loans) :
              /\ ~loans[i].is_active
              /\ ActiveCount(loans, loans[i].reader_id) = 0
              /\ readers[loans[i].reader_id].deposit_amount = 0

----------------------------------------------------------------------------
(* C5: when a return closes one loan of a reader who has several active     *)
(* loans, the reader's deposit is unchanged, exactly one loan goes from     *)
(* active to inactive, and every other loan keeps its is_active.            *)
C5_ReturnOneOfSeveral ==
    [][\A u \in Users : \A t \in ReturnTexts(u, loans') :
        return_book(u, t) =>
            /\ Len(loans') = Len(loans)
            /\ \A i \in Changed(loans, loans') :
                  ActiveCount(loans, loans[i].reader_id) >= 2 =>
                      /\ readers'[loans[i].reader_id].deposit_amount =
                            readers[loans[i].reader_id].deposit_amount
                      /\ Changed(loans, loans') = {i}
                      /\ loans[i].is_active /\ ~loans'[i].is_active
                      /\ \A j \in 1..Len(loans) :
                            j # i => loans'[j].is_active = loans[j].is_active]_vars

(* one of two books of a reader came back: one loan closed, one still open, *)
(* the deposit still on file                                                *)
C5_Witness ==
    \E u \in Users, i, j \in 1..Len(loans) :
        /\ state[u] = MAIN_MENU
        /\ replies[u].msgs = <<"Returned", "ChooseAction">>
        /\ loans[i].reader_id = loans[j].reader_id
        /\ ~loans[i].is_active /\ loans[i].return_date = 1
        /\ loans[j].is_active
        /\ readers[loans[i].reader_id].deposit_amount > 0

----------------------------------------------------------------------------
(* the choosing states and the handler of each *)
ChoosingStates == {CHOOSE_READER, SELECT_READER_FOR_BOOKS, RETURN_BOOK}

ChoosingHandler(u, t) ==
    IF state[u] = CHOOSE_READER THEN choose_reader(u, t)
    ELSE IF state[u] = SELECT_READER_FOR_BOOKS THEN select_reader_for_books(u, t)
    ELSE return_book(u, t)

NoReaderNamed(name) == \A i \in 1..Len(readers) : readers[i].name # name

(* a text that is not Back and that resolves to no reader: an unknown name  *)
(* in the two reader-choosing states; in ChoosingLoanToReturn a text that   *)
(* does not split at the separator into two parts, or whose first part      *)
(* names no reader                                                          *)
Unresolvable(u, t) ==
    /\ state[u] \in ChoosingStates
    /\ t # ACTION_BACK
    /\ ~IsCommand(t)
    /\ IF state[u] = RETURN_BOOK
       THEN \/ Len(split(t, <<":", " ">>)) # 2
            \/ NoReaderNamed(strip(split(t, <<":", " ">>)[1]))
       ELSE NoReaderNamed(t)

(* C6: in each choosing state an unresolvable text leaves the session in    *)
(* the same state and the readers, the loans, every deposit and the user's  *)
(* scratch unchanged; sent again it changes nothing at all, so repeating it *)
(* has the effect of sending it once.                                       *)
C6_UnresolvableIdempotent ==
    [][\A u \in Users :
        \A t \in (IF state[u] \in ChoosingStates THEN TextsFor(u) ELSE {}) :
            (Unresolvable(u, t) /\ ChoosingHandler(u, t)) =>
                /\ state'[u] = state[u]
                /\ readers' = readers
                /\ loans' = loans
                /\ user_data' = user_data
                /\ typed'[u].last = t
                /\ typed[u].last = t => UNCHANGED vars]_vars

(* an unresolvable text was answered in ChoosingLoanToReturn and the        *)
(* session is still there                                                   *)
C6_Witness ==
    \E u \in Users :
        /\ state[u] = RETURN_BOOK
        /\ typed[u].last # <<>>
        /\ Unresolvable(u, typed[u].last)
        /\ replies[u].msgs \in {<<"BadChoice">>, <<"ReaderNotFound">>}

----------------------------------------------------------------------------
(* C7: for every active loan, the label rendered for it in the return list  *)
(* is parsed back to exactly the reader id and the book title of that loan. *)
C7_LabelRoundTrip ==
    \A k \in 1..Len(loans) :
        loans[k].is_active =>
            LET p == parse_label(LoanLabel(readers, loans[k]))
            IN  /\ p.ok
                /\ get_reader_by_name(readers, p.reader_name).id = loans[k].reader_id
                /\ p.book_title = loans[k].book_title

----------------------------------------------------------------------------
(* C8, as stated: /start in any session state puts the session in MainMenu  *)
(* with its scratch empty and changes no reader and no loan.                *)
C8_AsStated ==
    [][\A u \in Users :
        start(u) =>
            /\ state'[u] = MAIN_MENU
            /\ DOMAIN user_data'[u] = {}
            /\ readers' = readers
            /\ loans' = loans]_vars

(* C8, amended: /start in any session state puts the session in MainMenu    *)
(* and changes no reader and no loan; the scratch is left as it was.        *)
C8_StartResets ==
    [][\A u \in Users :
        start(u) =>
            /\ state'[u] = MAIN_MENU
            /\ user_data'[u] = user_data[u]
            /\ readers' = readers
            /\ loans' = loans]_vars

(* /start arrived in AwaitingBookTitle: only /start leaves that state for   *)
(* MainMenu, with a reader chosen and no title ever entered                 *)
C8_Witness ==
    \E u \in Users :
        /\ state[u] = MAIN_MENU
        /\ replies[u].msgs = <<"ChooseAction">>
        /\ Has(user_data[u], "selected_reader")
        /\ ~Has(user_data[u], "book_title")

----------------------------------------------------------------------------
(* C9, as stated: whenever the session is in MainMenu, every reader's       *)
(* deposit is nonzero if and only if the reader holds an active loan.       *)
C9_AsStated ==
    \A u \in Users :
        state[u] = MAIN_MENU =>
            \A i \in 1..Len(readers) :
                readers[i].deposit_amount # 0 <=> ActiveCount(loans, i) >= 1

(* C9, amended: whenever the session is in MainMenu, every reader's deposit *)
(* is nonzero if and only if the reader holds an active loan, except for    *)
(* the readers whose deposit-taking checkout was confirmed with an amount   *)
(* of zero or less: they hold an active loan with a deposit of 0.           *)
C9_DepositIffLoan ==
    \A u \in Users :
        state[u] = MAIN_MENU =>
            \A i \in 1..Len(readers) :
                IF i \in waived
                THEN readers[i].deposit_amount = 0 /\ ActiveCount(loans, i) >= 1
                ELSE readers[i].deposit_amount # 0 <=> ActiveCount(loans, i) >= 1

(* back in MainMenu with one reader whose deposit is on file for an active  *)
(* loan, and another who has returned the last book and has deposit 0       *)
C9_Witness ==
    \E u \in Users, i, j \in 1..Len(readers) :
        /\ state[u] = MAIN_MENU
        /\ readers[i].deposit_amount > 0 /\ ActiveCount(loans, i) >= 1
        /\ readers[j].deposit_amount = 0 /\ ActiveCount(loans, j) = 0
        /\ \E k \in 1..Len(loans) : loans[k].reader_id = j /\ ~loans[k].is_active

----------------------------------------------------------------------------
(* C10: in every reachable state there is at most one active loan for each  *)
(* pair of reader id and book title.                                        *)
C10_OneActiveLoanPerPair ==
    \A i, j \in 1..Len(loans) :
        (/\ loans[i].is_active
         /\ loans[j].is_active
         /\ loans[i].reader_id = loans[j].reader_id
         /\ loans[i].book_title = loans[j].book_title) => i = j

----------------------------------------------------------------------------
(* C11: if a repository call fails during a turn, in whichever handler and  *)
(* at whichever of its calls, the session's dialog state after the turn is  *)
(* the state it had before the turn.                                        *)
C11_FailureKeepsState ==
    [][\A u \in Users : Raises(u) => state'[u] = state[u]]_vars

(* the storage failed in a return after the loan was closed and before the  *)
(* deposit was reset: the session is still in ChoosingLoanToReturn, the     *)
(* reader has no active loan and the deposit is still on file               *)
C11_Witness ==
    \E u \in Users, k \in 1..Len(loans) :
        /\ state[u] = RETURN_BOOK
        /\ replies[u].msgs = <<"WhichBookToReturn">>
        /\ ~loans[k].is_active
        /\ ActiveCount(loans, loans[k].reader_id) = 0
        /\ readers[loans[k].reader_id].deposit_amount > 0

----------------------------------------------------------------------------
(* C12: when two sessions both sit in ChoosingLoanToReturn and both send    *)
(* the label of the same active loan, in either order, the second attempt   *)
(* closes no loan, and the reader's deposit is reset at most once: if the   *)
(* first attempt reset it, the second writes no reader.                     *)
C12_ClosedOnce ==
    [][\A v \in Users :
        (/\ state[v] = RETURN_BOOK
         /\ typed[v].rival # <<>>
         /\ return_book(v, typed[v].rival)) =>
            /\ loans' = loans
            /\ typed[v].rivalReset => readers' = readers]_vars

(* the number of active loans the label t stands for *)
LabelCount(t) ==
    Cardinality({k \in 1..Len(loans) :
                    loans[k].is_active /\ LoanLabel(readers, loans[k]) = t})

(* C12 where the label stood for one loan only when the first session sent  *)
(* it: no active loan bears it when the second session sends it             *)
C12_ClosedOnceOfOne ==
    [][\A v \in Users :
        (/\ state[v] = RETURN_BOOK
         /\ typed[v].rival # <<>>
         /\ LabelCount(typed[v].rival) = 0
         /\ return_book(v, typed[v].rival)) =>
            /\ loans' = loans
            /\ readers' = readers
            /\ replies'[v].msgs = <<"ReturnError", "ChooseAction">>]_vars

----------------------------------------------------------------------------
(* C13: with two sessions whose turns interleave while one lends to a       *)
(* reader and the other takes back from the same reader, every amount       *)
(* entered being positive: once both sessions are in MainMenu, the reader's *)
(* deposit is nonzero if and only if the reader has an active loan.         *)
C13_TwoSessionsDepositIffLoan ==
    (\A u \in Users : state[u] = MAIN_MENU) =>
        \A i \in 1..Len(readers) :
            readers[i].deposit_amount # 0 <=> ActiveCount(loans, i) >= 1

----------------------------------------------------------------------------
(* the first reader of that name *)
FirstNamed(name) ==
    CHOOSE i \in 1..Len(readers) :
        /\ readers[i].name = name
        /\ \A j \in 1..Len(readers) : readers[j].name = name => i <= j

(* a well-formed label whose reader exists and whose title no active loan   *)
(* of that reader bears                                                     *)
NoSuchLoan(t) ==
    /\ t # ACTION_BACK
    /\ ~IsCommand(t)
    /\ Len(split(t, <<":", " ">>)) = 2
    /\ ~NoReaderNamed(strip(split(t, <<":", " ">>)[1]))
    /\ \A k \in 1..Len(loans) :
          ~(/\ loans[k].is_active
            /\ loans[k].reader_id = FirstNamed(strip(split(t, <<":", " ">>)[1]))
            /\ loans[k].book_title = strip(split(t, <<":", " ">>)[2]))

(* C14, as stated: in ChoosingLoanToReturn a well-formed label whose reader *)
(* exists but whose title matches no active loan of that reader leaves the  *)
(* session in ChoosingLoanToReturn and changes no reader and no loan.       *)
C14_AsStated ==
    [][\A u \in Users :
        \A t \in (IF state[u] = RETURN_BOOK THEN TextsFor(u) ELSE {}) :
            (NoSuchLoan(t) /\ return_book(u, t)) =>
                /\ state'[u] = RETURN_BOOK
                /\ readers' = readers
                /\ loans' = loans]_vars

(* C14, amended: such a label is answered with the error message and the    *)
(* session goes to MainMenu; no reader and no loan is changed.              *)
C14_NoSuchLoan ==
    [][\A u \in Users :
        \A t \in (IF state[u] = RETURN_BOOK THEN TextsFor(u) ELSE {}) :
            (NoSuchLoan(t) /\ return_book(u, t)) =>
                /\ state'[u] = MAIN_MENU
                /\ replies'[u].msgs = <<"ReturnError", "ChooseAction">>
                /\ readers' = readers
                /\ loans' = loans]_vars

(* a label of a known reader and a title not on loan was sent and answered  *)
(* with the error message                                                   *)
C14_Witness ==
    \E u \in Users :
        /\ state[u] = MAIN_MENU
        /\ replies[u].msgs = <<"ReturnError", "ChooseAction">>

----------------------------------------------------------------------------
(* C15: in AwaitingBookTitle, on any text: if the selected reader has no    *)
(* active loan at that moment the next state is AwaitingDepositAmount; if   *)
(* the reader has at least one, the pending deposit in the scratch is set   *)
(* to 0 and the next state is ConfirmingCheckout.  In both cases the text   *)
(* is stored as the pending title and no reader and no loan is changed.     *)
C15_TitleEntered ==
    [][\A u \in Users :
        \A t \in (IF state[u] = PROCESS_BOOK THEN TextsFor(u) ELSE {}) :
            process_book(u, t) =>
                /\ ActiveCount(loans, user_data[u]["selected_reader"].id) = 0 =>
                      /\ state'[u] = DEPOSIT_AMOUNT
                      /\ user_data'[u]["pending_book"] = t
                /\ ActiveCount(loans, user_data[u]["selected_reader"].id) >= 1 =>
                      /\ state'[u] = CONFIRM_BOOK
                      /\ Has(user_data'[u], "deposit_needed")
                      /\ user_data'[u]["deposit_needed"] = 0
                /\ user_data'[u]["book_title"] = t
                /\ readers' = readers
                /\ loans' = loans]_vars

(* a title was entered for a reader who has a book out and a deposit on     *)
(* file: the session is in ConfirmingCheckout with a pending deposit of 0   *)
C15_Witness ==
    \E u \in Users :
        /\ state[u] = CONFIRM_BOOK
        /\ replies[u].msgs = <<"NoDepositNeededConfirm">>
        /\ user_data[u]["book_title"] = typed[u].title
        /\ user_data[u]["deposit_needed"] = 0
        /\ ActiveCount(loans, user_data[u]["selected_reader"].id) >= 1
        /\ readers[user_data[u]["selected_reader"].id].deposit_amount > 0

----------------------------------------------------------------------------
(* C16: in AwaitingDepositAmount, Back leads to MainMenu; a text that does  *)
(* not parse as an integer leaves the session in AwaitingDepositAmount and  *)
(* the scratch, the pending deposit with it, unchanged; a text that parses  *)
(* as an integer is stored as the pending deposit and leads to              *)
(* ConfirmingCheckout.  None of the three changes a reader or a loan.       *)
C16_AmountEntered ==
    [][\A u \in Users :
        \A t \in (IF state[u] = DEPOSIT_AMOUNT THEN TextsFor(u) ELSE {}) :
            deposit_amount_input(u, t) =>
                /\ t = ACTION_BACK => state'[u] = MAIN_MENU
                /\ (t # ACTION_BACK /\ ~int_ok(t)) =>
                      /\ state'[u] = DEPOSIT_AMOUNT
                      /\ user_data'[u] = user_data[u]
                /\ (t # ACTION_BACK /\ int_ok(t)) =>
                      /\ state'[u] = CONFIRM_BOOK
                      /\ user_data'[u]["deposit_needed"] = int(t)
                /\ readers' = readers
                /\ loans' = loans]_vars

(* a text that is no integer was turned down in a second checkout flow: the *)
(* session is still in AwaitingDepositAmount and the pending deposit of the *)
(* flow before is still in the scratch                                      *)
C16_Witness ==
    \E u \in Users :
        /\ state[u] = DEPOSIT_AMOUNT
        /\ replies[u].msgs = <<"NotANumber">>
        /\ Has(user_data[u], "deposit_needed")
        /\ user_data[u]["deposit_needed"] # 0

----------------------------------------------------------------------------
(* the states of the checkout flow *)
CheckoutStates == {CHOOSE_READER, PROCESS_BOOK, DEPOSIT_AMOUNT, CONFIRM_BOOK}

(* the steps that abandon the checkout flow user u is in *)
Abandons(u) ==
    \/ start(u)
    \/ choose_reader(u, ACTION_BACK)
    \/ deposit_amount_input(u, ACTION_BACK)
    \/ confirm_book(u, NO_BTN)

(* C17: a checkout flow that is abandoned (Back in ChoosingReaderForCheckout *)
(* or AwaitingDepositAmount, No in ConfirmingCheckout, /start in any        *)
(* checkout state) ends in MainMenu and leaves the readers, every deposit   *)
(* with them, and the loans as they were when the flow was entered: no step *)
(* of the flow before the Yes of ConfirmingCheckout changes a reader or a   *)
(* loan, and each abandoning step leads to MainMenu.                        *)
C17_AbandonedCheckout ==
    [][\A u \in Users :
        state[u] \in CheckoutStates =>
            /\ ~confirm_book(u, YES_BTN) => (readers' = readers /\ loans' = loans)
            /\ Abandons(u) => state'[u] = MAIN_MENU]_vars

(* a checkout for which a positive deposit was entered was abandoned at the *)
(* confirmation: no loan is on file and no reader has a deposit             *)
C17_Witness ==
    \E u \in Users :
        /\ state[u] = MAIN_MENU
        /\ replies[u].msgs = <<"Cancelled", "ChooseAction">>
        /\ Has(user_data[u], "deposit_needed")
        /\ user_data[u]["deposit_needed"] > 0
        /\ loans = <<>>
        /\ \A i \in 1..Len(readers) : readers[i].deposit_amount = 0

----------------------------------------------------------------------------
(* the active loans of a reader and a title *)
Matching(reader_id, book_title) ==
    {k \in 1..Len(loans) : /\ loans[k].reader_id = reader_id
                           /\ loans[k].book_title = book_title
                           /\ loans[k].is_active}

(* C18: the repository's return_book, for a reader and a title: when one or *)
(* more active loans match, it makes exactly one of them inactive and       *)
(* writes its return date, leaves every other loan as it is, and reports    *)
(* true; when none matches it changes nothing and reports false.            *)
C18_CloseLoan ==
    \A r \in 1..MaxReaders, t \in TitleTexts :
        IF Matching(r, t) # {}
        THEN /\ db_return_book_result(loans, r, t)
             /\ Len(db_return_book(loans, r, t)) = Len(loans)
             /\ \E k \in Matching(r, t) :
                   /\ ~db_return_book(loans, r, t)[k].is_active
                   /\ db_return_book(loans, r, t)[k].return_date =
                         loans[k].return_date + 1
                   /\ \A j \in 1..Len(loans) :
                         j # k => db_return_book(loans, r, t)[j] = loans[j]
        ELSE /\ ~db_return_book_result(loans, r, t)
             /\ db_return_book(loans, r, t) = loans

(* of two active loans of one reader and one title, one was closed and has  *)
(* its return date, the other is still active                               *)
C18_Witness ==
    \E i, j \in 1..Len(loans) :
        /\ i # j
        /\ loans[i].reader_id = loans[j].reader_id
        /\ loans[i].book_title = loans[j].book_title
        /\ ~loans[i].is_active /\ loans[i].return_date = 1
        /\ loans[j].is_active /\ loans[j].return_date = 0
        /\ i < j

----------------------------------------------------------------------------
(* C19: across every sequence of turns, no reader and no loan is removed; a *)
(* reader's id, name and contact and a loan's reader id and title never     *)
(* change; a loan that has become inactive never becomes active again and   *)
(* its return date is never written a second time.                         *)
C19_Lifecycle ==
    [][/\ Len(readers') >= Len(readers)
       /\ Len(loans') >= Len(loans)
       /\ \A i \in 1..Len(readers) :
             /\ readers'[i].id = readers[i].id
             /\ readers'[i].name = readers[i].name
             /\ readers'[i].contact = readers[i].contact
       /\ \A k \in 1..Len(loans) :
             /\ loans'[k].reader_id = loans[k].reader_id
             /\ loans'[k].book_title = loans[k].book_title
             /\ ~loans[k].is_active => ~loans'[k].is_active
             /\ loans[k].return_date # 0 =>
                   loans'[k].return_date = loans[k].return_date]_vars

(* a reader took a title, brought it back and took the same title again:    *)
(* the returned loan is on file, closed, with its one return date           *)
C19_Witness ==
    \E i, j \in 1..Len(loans) :
        /\ i < j
        /\ loans[i].reader_id = loans[j].reader_id
        /\ loans[i].book_title = loans[j].book_title
        /\ ~loans[i].is_active /\ loans[i].return_date = 1
        /\ ~loans[j].is_active /\ loans[j].return_date = 1

----------------------------------------------------------------------------
(* C20: every reader's deposit is a non-negative integer in every reachable *)
(* state, whichever integer, positive, zero or negative, was entered in     *)
(* AwaitingDepositAmount.                                                   *)
C20_DepositNonNegative ==
    \A i \in 1..Len(readers) :
        readers[i].deposit_amount \in Nat

(* a checkout was confirmed for which a negative amount had been entered:   *)
(* the loan is on file and the reader's deposit is 0                        *)
C20_Witness ==
    \E u \in Users :
        /\ state[u] = MAIN_MENU
        /\ replies[u].msgs = <<"BookIssued", "ChooseAction">>
        /\ user_data[u]["deposit_needed"] < 0
        /\ ActiveCount(loans, user_data[u]["selected_reader"].id) >= 1
        /\ readers[user_data[u]["selected_reader"].id].deposit_amount = 0

----------------------------------------------------------------------------
(* C21: when a confirmed checkout with a positive pending deposit is        *)
(* interrupted between its two repository writes (the second write fails),  *)
(* the registry is left with the new active Loan created and the reader's   *)
(* deposit not yet updated; it is never left with the deposit recorded and  *)
(* no loan created.                                                         *)
C21_LoanBeforeDeposit ==
    [][\A u \in Users :
        (/\ confirm_book_raises(u, YES_BTN, "add_loan")
         /\ user_data[u]["deposit_needed"] > 0) =>
            /\ loans' = Append(loans, NewLoan(user_data[u]["selected_reader"].id,
                                              user_data[u]["book_title"]))
            /\ readers' = readers]_vars

----------------------------------------------------------------------------
(* C22: after a turn in which a repository call failed, in                  *)
(* ConfirmingCheckout or in ChoosingLoanToReturn, sending the same input    *)
(* again once the storage works brings the registry to what a turn without  *)
(* failure would have produced: the loan created exactly once with its      *)
(* deposit set, or one loan of the label closed and, if it was the reader's *)
(* last, the deposit reset to 0.                                            *)
C22_RetryCompletes ==
    [][\A u \in Users :
        /\ (/\ state[u] = CONFIRM_BOOK
            /\ typed[u].failed.text = YES_BTN
            /\ confirm_book(u, YES_BTN)) =>
               /\ loans' = Append(loans, NewLoan(user_data[u]["selected_reader"].id,
                                                 user_data[u]["book_title"]))
               /\ Len(loans) = typed[u].failed.loans
               /\ user_data[u]["deposit_needed"] > 0 =>
                     readers'[user_data[u]["selected_reader"].id].deposit_amount =
                         user_data[u]["deposit_needed"]
        /\ (/\ state[u] = RETURN_BOOK
            /\ typed[u].failed.matching >= 1
            /\ return_book(u, typed[u].failed.text)) =>
               LET r == FirstNamed(strip(split(typed[u].failed.text, <<":", " ">>)[1]))
                   t == strip(split(typed[u].failed.text, <<":", " ">>)[2])
               IN  /\ Len(MatchingPositions(loans', r, t)) =
                         typed[u].failed.matching - 1
                   /\ ActiveCount(loans', r) = 0 =>
                         readers'[r].deposit_amount = 0]_vars

(* the half of C22 that is about ConfirmingCheckout *)
C22_CheckoutRetry ==
    [][\A u \in Users :
        (/\ state[u] = CONFIRM_BOOK
         /\ typed[u].failed.text = YES_BTN
         /\ confirm_book(u, YES_BTN)) =>
            /\ loans' = Append(loans, NewLoan(user_data[u]["selected_reader"].id,
                                              user_data[u]["book_title"]))
            /\ Len(loans) = typed[u].failed.loans
            /\ user_data[u]["deposit_needed"] > 0 =>
                  readers'[user_data[u]["selected_reader"].id].deposit_amount =
                      user_data[u]["deposit_needed"]]_vars

----------------------------------------------------------------------------
(* C23: whenever a session is in AwaitingBookTitle, AwaitingDepositAmount   *)
(* or ConfirmingCheckout its scratch holds every field the handler of that  *)
(* state reads (the selected reader in all three, the pending title in      *)
(* AwaitingDepositAmount, the title and the pending deposit in              *)
(* ConfirmingCheckout), and in ConfirmingReader it holds name and contact.  *)
C23_ScratchComplete ==
    \A u \in Users :
        /\ state[u] \in {PROCESS_BOOK, DEPOSIT_AMOUNT, CONFIRM_BOOK} =>
              Has(user_data[u], "selected_reader")
        /\ state[u] = DEPOSIT_AMOUNT => Has(user_data[u], "pending_book")
        /\ state[u] = CONFIRM_BOOK =>
              /\ Has(user_data[u], "book_title")
              /\ Has(user_data[u], "deposit_needed")
        /\ state[u] = CONFIRM_READER =>
              /\ Has(user_data[u], "reader_name")
              /\ Has(user_data[u], "reader_contact")

(* after a registration and a first checkout, the session is in            *)
(* ConfirmingCheckout for a reader with a book out, where no amount was     *)
(* asked for: the fields read there are all in the scratch                  *)
C23_Witness ==
    \E u \in Users :
        /\ state[u] = CONFIRM_BOOK
        /\ replies[u].msgs = <<"NoDepositNeededConfirm">>
        /\ Has(user_data[u], "selected_reader")
        /\ Has(user_data[u], "book_title")
        /\ Has(user_data[u], "deposit_needed")
        /\ Has(user_data[u], "reader_contact")

----------------------------------------------------------------------------
(* C24: the Loan created by Yes in ConfirmingCheckout carries the reader    *)
(* selected, the title entered and the deposit decided in the current       *)
(* checkout flow (since the session last left MainMenu): the amount entered *)
(* in this flow, or 0 when this flow asked for none; never a value left in  *)
(* the scratch by an earlier flow.                                          *)
C24_CurrentFlowValues ==
    [][\A u \in Users :
        confirm_book(u, YES_BTN) =>
            /\ typed[u].reader # <<>>
            /\ typed[u].title # <<>>
            /\ loans' = Append(loans, NewLoan(ChosenReader(u).id, typed[u].title))
            /\ user_data[u]["deposit_needed"] =
                  IF typed[u].amount = <<>> THEN 0 ELSE int(typed[u].amount)
            /\ IF user_data[u]["deposit_needed"] > 0
               THEN readers' = update_reader_deposit(readers, ChosenReader(u).id,
                                                     int(typed[u].amount))
               ELSE readers' = readers]_vars

(* a second checkout was confirmed, for another reader and another title    *)
(* than the first: the new loan has the reader and the title of this flow   *)
C24_Witness ==
    \E u \in Users :
        /\ state[u] = MAIN_MENU
        /\ replies[u].msgs = <<"BookIssued", "ChooseAction">>
        /\ Len(loans) = 2
        /\ loans[1].reader_id # loans[2].reader_id
        /\ loans[1].book_title # loans[2].book_title
        /\ user_data[u]["selected_reader"].id = loans[2].reader_id
        /\ user_data[u]["book_title"] = loans[2].book_title

=============================================================================
